---- MODULE Spec2Model ----
(***************************************************************************)
(* Model of the office dimmer firmware (src/src/main.cpp): the polling     *)
(* loop(), the rotation clamp, the three button handlers and the two       *)
(* WiZ senders, with the global state they share.                          *)
(*                                                                         *)
(* One pass of loop() is split into its steps, in program order:           *)
(*   drain -> rotate -> encoder -> study -> uplight -> wdt -> delay        *)
(* The encoder hardware and the network are the environment: the encoder   *)
(* count moves and packets arrive while the loop sleeps in delay(10).      *)
(* The AceButton classifier is a library outside the repository: each      *)
(* check() either dispatches one event type to the handler or none.        *)
(***************************************************************************)
EXTENDS Integers, Sequences, FiniteSets, TLC

VARIABLES
    brightness,        \* int brightness                      (main.cpp:34)
    studyLampOn,       \* bool studyLampOn                    (main.cpp:39)
    uplightOn,         \* bool uplightOn                      (main.cpp:40)
    colorTempMode,     \* int colorTempMode                   (main.cpp:41)
    messageId,         \* static uint32_t messageId           (main.cpp:43)
    lastEncoderCount,  \* static int lastEncoderCount         (main.cpp:180)
    encoderCount,      \* the count held by ESP32Encoder      (main.cpp:22)
    rxPending,         \* datagrams waiting in the UDP socket (main.cpp:175)
    pc,                \* position of loop()
    sent,              \* history: commands handed to the transport by the last step
    lastId,            \* history: id of the last command handed over before `sent`
    lastOkId,          \* history: id of the last command accepted before `sent`
    ev,                \* history: what the last step dispatched, and the state it saw
    last,              \* history: summary of the most recent user event
    prev,              \* history: the event before `last`, kept when it is the same button
    pendingB,          \* history: brightness set by a rotation no light has been told of
    script,            \* history: how far the run has followed the reference scenario
    tick,              \* history: what the rotation step of the current pass did
    knob,              \* history: the last turn and whether a bound absorbed a turn
    btn,               \* the encoder button's classifier: phase, debounce flag, timer
    hand,              \* the encoder button's contact: level and for how many polls
    pair               \* history: the pair of gestures under way and what it caused

vars == <<brightness, studyLampOn, uplightOn, colorTempMode, messageId,
          lastEncoderCount, encoderCount, rxPending, pc,
          sent, lastId, lastOkId, ev, last, prev, pendingB, script, tick,
          knob, btn, hand, pair>>

\* The encoder button's contact and classifier, and the observer of gestures.
buttonVars == <<btn, hand, pair>>

(***************************************************************************)
(* Program constants                                                       *)
(***************************************************************************)
MIN_BRIGHTNESS == 10
MAX_BRIGHTNESS == 100
BRIGHTNESS_STEP == 2
InitBrightness == 50

STUDY_LAMP == "STUDY_LAMP"
UPLIGHT == "UPLIGHT"

temps == <<2200, 2700, 4000, 6500>>

minCount == MIN_BRIGHTNESS \div BRIGHTNESS_STEP
maxCount == MAX_BRIGHTNESS \div BRIGHTNESS_STEP

(***************************************************************************)
(* Bounds of the model                                                     *)
(***************************************************************************)
\* Highest value the request-id counter may reach: an input that would push
\* it further is not offered.
MaxId == 5
\* Most datagrams that can be waiting when a pass of loop() starts.
MaxRx == 1
\* Polls a press may last and still be a click, and polls after a click
\* within which a second press makes a double-click.
ClickTicks == 3
WindowTicks == 3
\* Detents the encoder can move while loop() sleeps: none, a turn of five
\* detents either way, and a spin that overshoots the whole range.
Turns == {-60, -5, 0, 5, 60}
\* Single detents, for the behaviour at the ends of the range.
TurnsFine == {-1, 0, 1}

\* Event types AceButton hands to a handler ("none": check() dispatched nothing).
EncoderEvents == {"none", "kEventPressed", "kEventClicked", "kEventDoubleClicked"}
LightEvents == {"none", "kEventReleased", "kEventClicked"}

(***************************************************************************)
(* Command encoder / transport                                             *)
(***************************************************************************)
\* Variant: the dimming field is written whatever the state.
WizCommandPayloadAlwaysDim(id, state, b) ==
    [id |-> id, state |-> state, dimming |-> b]

\* Variant: a power-on always asks for full brightness.
WizCommandPayloadFull(id, state, b) ==
    IF state
    THEN [id |-> id, state |-> TRUE, dimming |-> MAX_BRIGHTNESS]
    ELSE [id |-> id, state |-> FALSE]

\* snprintf formats of sendWizCommand: power on + dimming, or power off.
WizCommandPayload(id, state, b) ==
    IF state
    THEN [id |-> id, state |-> TRUE, dimming |-> b]
    ELSE [id |-> id, state |-> FALSE]

\* snprintf format of sendWizColorTemp: dimming + temp, no state field.
WizColorTempPayload(id, b, colorTemp) ==
    [id |-> id, dimming |-> b, temp |-> colorTemp]

\* Variant: messageId++ placed before the failure return.
NextMessageIdAlways(id, ok) ==
    id + 1

\* Variant: messageId++ left out.
NextMessageIdStuck(id, ok) ==
    id

\* messageId after one send: the failure branch returns before messageId++.
\* messageId is a uint32_t and wraps at 2^32; the model stops at MaxId, far
\* below the wrap, so the increment is the plain one.
NextMessageId(id, ok) ==
    IF ok THEN id + 1 ELSE id

\* Variant: a failed power command is handed to the transport a second time.
sendWizCommandRetry(tx, ip, state, b, ok, on) ==
    LET c == [ip |-> ip, ok |-> ok, on |-> on,
              payload |-> WizCommandPayload(tx.id, state, b)]
    IN [cmds |-> IF ok THEN Append(tx.cmds, c)
                 ELSE Append(Append(tx.cmds, c), [c EXCEPT !.ok = TRUE]),
        id |-> tx.id + 1]

\* A sender runs on tx = [cmds, id]: the commands handed to the transport so
\* far in this step and the current messageId.  ok is what endPacket() said;
\* on records whether the target light is on when the packet is handed over.
sendWizCommand(tx, ip, state, b, ok, on) ==
    [cmds |-> Append(tx.cmds, [ip |-> ip, ok |-> ok, on |-> on,
                               payload |-> WizCommandPayload(tx.id, state, b)]),
     id |-> NextMessageId(tx.id, ok)]

sendWizColorTemp(tx, ip, b, colorTemp, ok, on) ==
    [cmds |-> Append(tx.cmds, [ip |-> ip, ok |-> ok, on |-> on,
                               payload |-> WizColorTempPayload(tx.id, b, colorTemp)]),
     id |-> NextMessageId(tx.id, ok)]

(***************************************************************************)
(* Pieces of loop() and of the handlers                                    *)
(***************************************************************************)
\* Variant: the clamp without its upper branch.
ClampCountLowOnly(c) ==
    IF c < minCount THEN minCount ELSE c

\* The clamp of loop(): below minCount -> minCount, above maxCount -> maxCount.
ClampCount(c) ==
    IF c < minCount THEN minCount
    ELSE IF c > maxCount THEN maxCount
    ELSE c

\* Variant: the detent count taken as the brightness.
BrightnessRaw(count) ==
    count

\* brightness = currentCount * BRIGHTNESS_STEP
BrightnessOf(count) ==
    count * BRIGHTNESS_STEP

\* Variant: the table is read after the index has advanced.
TempOfNext(mode) ==
    temps[((mode + 1) % 4) + 1]

\* Variant: the mode index sent in place of the table entry.
TempOfIndex(mode) ==
    mode

\* temps[colorTempMode] (C arrays are 0-based, TLA+ sequences 1-based)
TempOf(mode) ==
    temps[mode + 1]

\* Variant: the cycle one entry short.
NextColorTempModeShort(mode) ==
    (mode + 1) % 3

\* colorTempMode = (colorTempMode + 1) % 4
NextColorTempMode(mode) ==
    (mode + 1) % 4

\* Variant: anyOn computed with && in place of ||.
DoubleClickTargetAll(s, u) ==
    ~(s /\ u)

\* bool anyOn = studyLampOn || uplightOn; both lights become !anyOn
DoubleClickTarget(s, u) ==
    ~(s \/ u)

\* How many lights are on: the number of sends a rotation or a
\* temperature click makes.
NumOn(s, u) ==
    (IF s THEN 1 ELSE 0) + (IF u THEN 1 ELSE 0)

(***************************************************************************)
(* History bookkeeping (observes the run, never read by the program)       *)
(***************************************************************************)
HasField(c, f) == f \in DOMAIN c.payload

\* "on" / "off" for a command with a state field, "none" without one.
PowerOf(c) ==
    IF HasField(c, "state")
    THEN (IF c.payload.state THEN "on" ELSE "off")
    ELSE "none"

CmdsTo(cmds, ip) == SelectSeq(cmds, LAMBDA c : c.ip = ip)

NoEv == [src |-> "none", s0 |-> FALSE, u0 |-> FALSE, raw |-> 0, pend |-> 0, t0 |-> 0,
         turn |-> 0, over |-> 0]
NoSummary == [src |-> "none", was |-> FALSE, n |-> 0, st |-> "none"]

\* Summary of a click on one light's own button.
LightSummary(src, ip, was, cmds) ==
    LET mine == CmdsTo(cmds, ip)
    IN [src |-> src, was |-> was, n |-> Len(mine),
        st |-> IF mine = <<>> THEN "none" ELSE PowerOf(mine[Len(mine)])]

\* sent / lastId after a step that handed cmds to the transport.
Log(cmds) ==
    /\ sent' = cmds
    /\ lastId' = IF sent = <<>> THEN lastId ELSE sent[Len(sent)].payload.id
    /\ lastOkId' = LET acc == SelectSeq(sent, LAMBDA c : c.ok)
                   IN IF acc = <<>> THEN lastOkId ELSE acc[Len(acc)].payload.id

\* last / prev after a step that dispatched the user event `summary`.
Remember(summary) ==
    /\ last' = summary
    /\ prev' = IF summary.src = last.src /\ summary.src \in {"study", "uplight"}
               THEN last ELSE NoSummary

\* pendingB after a step: a power-on tells a light the brightness; a
\* rotation that reaches no light leaves the new value pending.
Pending(cmds, silentB) ==
    pendingB' = IF \E i \in 1..Len(cmds) : PowerOf(cmds[i]) = "on" THEN 0
                ELSE IF silentB # 0 THEN silentB
                ELSE pendingB

\* The reference scenario: the user events in order, each with every send
\* accepted.  The rotation is to the detent of brightness 60.
ScenarioEvents == <<"study", "rot", "dbl", "click">>
ScenarioDetent == 60 \div BRIGHTNESS_STEP
OffScript == Len(ScenarioEvents) + 1

\* script after a step that dispatched user event src (raw: the count a
\* rotation read): one further while the run follows the scenario, OffScript
\* from the first departure on.
Follow(src, raw, cmds) ==
    script' = IF /\ script < Len(ScenarioEvents)
                 /\ src = ScenarioEvents[script + 1]
                 /\ src = "rot" => raw = ScenarioDetent
                 /\ \A i \in 1..Len(cmds) : cmds[i].ok
              THEN script + 1
              ELSE OffScript

\* The rotation step of a pass: whether the detent changed, how many commands
\* it sent, the id of the last of them and whether the transport accepted it,
\* and the brightness it set.  NoTick outside the button polls.
NoTick == [changed |-> FALSE, n |-> 0, hi |-> 0, ok |-> FALSE, b |-> 0]

TickOf(changed, cmds, b) ==
    IF ~changed THEN NoTick
    ELSE [changed |-> TRUE, n |-> Len(cmds),
          hi |-> IF cmds = <<>> THEN 0 ELSE cmds[Len(cmds)].payload.id,
          ok |-> IF cmds = <<>> THEN FALSE ELSE cmds[Len(cmds)].ok,
          b |-> b]

\* The knob: turn is the number of detents turned during the last sleep, until
\* the rotation step has read the count; over is 1 (-1) from a pass that read
\* a count above maxCount (below minCount) without a detent change, until the
\* detent changes.
NoKnob == [turn |-> 0, over |-> 0]

Beyond(raw) ==
    IF raw > maxCount THEN 1 ELSE IF raw < minCount THEN -1 ELSE 0

KnobAfter(raw, changed) ==
    [turn |-> 0,
     over |-> IF changed THEN 0
              ELSE IF Beyond(raw) # 0 THEN Beyond(raw)
              ELSE knob.over]

\* A step that dispatches nothing.
Quiet ==
    /\ Log(<<>>)
    /\ ev' = NoEv
    /\ UNCHANGED <<last, prev, pendingB, script>>

(***************************************************************************)
(* The encoder button's classifier                                         *)
(***************************************************************************)
\* The features setup() switches on for the encoder button.
EncoderFeaturesNoPostpone ==
    {"kFeatureClick", "kFeatureDoubleClick", "kFeatureSuppressAfterDoubleClick"}

EncoderFeatures ==
    {"kFeatureClick", "kFeatureDoubleClick", "kFeatureSuppressAfterDoubleClick",
     "kFeatureSuppressClickBeforeDoubleClick"}

\* Every event type the encoder button's classifier can hand over.
ClassifierEvents == EncoderEvents \cup {"kEventReleased"}

\* The classifier at rest.  st is Idle, Pressed, AwaitingSecondClick or
\* DoubleClicked (the second press of a double-click is down); deb says a
\* changed level has been read once and awaits its confirmation (Debouncing);
\* t counts polls since the phase was entered.
IdleButton == [st |-> "Idle", deb |-> FALSE, t |-> 0]

\* One poll of a classifier in phase Idle: a press read at two polls
\* running is accepted.
PollIdle(b, down, e) ==
    IF down
    THEN IF b.deb
         THEN [btn |-> [st |-> "Pressed", deb |-> FALSE, t |-> 0],
               e |-> IF e = "none" THEN "kEventPressed" ELSE e]
         ELSE [btn |-> [st |-> "Idle", deb |-> TRUE, t |-> 0], e |-> e]
    ELSE [btn |-> IdleButton, e |-> e]

\* One poll of a button with features F reading level down; the result is the
\* classifier after the poll and the event handed to the handler, if any.
\* A release read at two polls running is accepted.  A press shorter than
\* ClickTicks is a click: with double-click enabled it is held back while a
\* second press may still come, and handed over when WindowTicks have passed
\* without one; a second press accepted in time makes the pair a
\* double-click, handed over when that press is released.
ButtonPoll(b, down, F) ==
    LET dbl == "kFeatureDoubleClick" \in F
        postpone == "kFeatureSuppressClickBeforeDoubleClick" \in F
        tick1 == [b EXCEPT !.t = IF b.t < ClickTicks + WindowTicks
                                 THEN b.t + 1 ELSE b.t]
        click == b.t + 1 < ClickTicks
    IN CASE b.st = "Idle" -> PollIdle(b, down, "none")
         [] b.st = "Pressed" ->
              IF down THEN [btn |-> [tick1 EXCEPT !.deb = FALSE], e |-> "none"]
              ELSE IF ~b.deb THEN [btn |-> [tick1 EXCEPT !.deb = TRUE], e |-> "none"]
              ELSE IF click /\ dbl
                   THEN [btn |-> [st |-> "AwaitingSecondClick", deb |-> FALSE, t |-> 0],
                         e |-> IF postpone THEN "kEventReleased" ELSE "kEventClicked"]
              ELSE [btn |-> IdleButton,
                    e |-> IF click THEN "kEventClicked" ELSE "kEventReleased"]
         [] b.st = "AwaitingSecondClick" ->
              IF b.t + 1 >= WindowTicks
              THEN PollIdle(b, down, IF postpone THEN "kEventClicked" ELSE "none")
              ELSE IF ~down THEN [btn |-> [tick1 EXCEPT !.deb = FALSE], e |-> "none"]
              ELSE IF ~b.deb THEN [btn |-> [tick1 EXCEPT !.deb = TRUE], e |-> "none"]
              ELSE [btn |-> [st |-> "DoubleClicked", deb |-> FALSE, t |-> 0],
                    e |-> "kEventPressed"]
         [] OTHER ->
              IF down THEN [btn |-> [tick1 EXCEPT !.deb = FALSE], e |-> "none"]
              ELSE IF ~b.deb THEN [btn |-> [tick1 EXCEPT !.deb = TRUE], e |-> "none"]
              ELSE [btn |-> IdleButton,
                    e |-> IF click THEN "kEventDoubleClicked"
                          ELSE IF postpone THEN "kEventClicked"
                          ELSE "kEventReleased"]

(***************************************************************************)
(* The user's hand on the encoder button, and what a pair of gestures did  *)
(***************************************************************************)
\* Polls after which nothing of an earlier gesture is left in the classifier.
QuietTicks == WindowTicks + 2
RunCap == QuietTicks + 1

\* The contact: down is the level, run the number of polls it has had that
\* level for (counting the poll of the current pass, and no further than
\* RunCap).  At start the button has long been released.
HandOff == [down |-> FALSE, run |-> RunCap]

\* The polls that have read the present level.
PolledRun ==
    IF pc \in {"drain", "rotate", "encoder"} THEN hand.run - 1 ELSE hand.run

\* The pair of gestures under way.  k: 0 none, 1 first press down, 2 first
\* gesture done, 3 second press down, 4 second gesture done.  in: the
\* second press came within the window.  c, d: click and double-click events
\* handed to the handler since the pair began; f: polls at which the handler
\* changed a light; m0: colorTempMode when the pair began.
NoPair == [k |-> 0, in |-> FALSE, c |-> 0, d |-> 0, f |-> 0, m0 |-> 0]

\* A gesture: the contact closed for at least two polls (so that it is no
\* bounce) and for fewer than ClickTicks.
IsGesture(run) == run >= 2 /\ run < ClickTicks

\* pair after the contact changed to level down, its previous level having
\* lasted hand.run polls.  A press after a quiet spell begins a pair; a
\* second press after at least two polls of rest continues it; anything else
\* (a bounce, a long press, a third press) ends it.
PairAtFlip(down) ==
    IF down
    THEN IF pair.k = 2 /\ hand.run >= 2
         THEN [pair EXCEPT !.k = 3, !.in = hand.run < WindowTicks]
         ELSE IF hand.run >= QuietTicks
         THEN [NoPair EXCEPT !.k = 1, !.m0 = colorTempMode]
         ELSE NoPair
    ELSE IF pair.k \in {1, 3} /\ IsGesture(hand.run)
         THEN [pair EXCEPT !.k = pair.k + 1]
         ELSE NoPair

\* pair after a poll that handed event e to the handler.
PairAtPoll(e, flipped) ==
    IF pair.k = 0 THEN pair
    ELSE [pair EXCEPT !.c = IF e = "kEventClicked" /\ pair.c < 3
                            THEN pair.c + 1 ELSE pair.c,
                      !.d = IF e = "kEventDoubleClicked" /\ pair.d < 3
                            THEN pair.d + 1 ELSE pair.d,
                      !.f = IF flipped /\ pair.f < 3 THEN pair.f + 1 ELSE pair.f]

(***************************************************************************)
(* Init: the globals as initialised, after setup()                         *)
(***************************************************************************)
Init ==
    /\ brightness = InitBrightness
    /\ studyLampOn = FALSE
    /\ uplightOn = FALSE
    /\ colorTempMode = 0
    /\ messageId = 1
    /\ encoderCount = InitBrightness \div BRIGHTNESS_STEP
    /\ lastEncoderCount = InitBrightness \div BRIGHTNESS_STEP
    /\ rxPending = 0
    /\ pc = "drain"
    /\ sent = <<>>
    /\ lastId = 0
    /\ lastOkId = 0
    /\ ev = NoEv
    /\ last = NoSummary
    /\ prev = NoSummary
    /\ pendingB = 0
    /\ script = 0
    /\ tick = NoTick
    /\ knob = NoKnob
    /\ btn = IdleButton
    /\ hand = HandOff
    /\ pair = NoPair

(***************************************************************************)
(* loop(): drain of the receive buffer                                     *)
(***************************************************************************)
\* while (udp.parsePacket()) udp.flush();  -- one datagram discarded
DrainPacket ==
    /\ pc = "drain"
    /\ UNCHANGED buttonVars
    /\ rxPending > 0
    /\ rxPending' = rxPending - 1
    /\ Quiet
    /\ UNCHANGED <<brightness, studyLampOn, uplightOn, colorTempMode, messageId,
                   lastEncoderCount, encoderCount, pc, tick,
                   knob>>

\* parsePacket() returns 0: the while loop exits
DrainDone ==
    /\ pc = "drain"
    /\ UNCHANGED buttonVars
    /\ rxPending = 0
    /\ pc' = "rotate"
    /\ Quiet
    /\ UNCHANGED <<brightness, studyLampOn, uplightOn, colorTempMode, messageId,
                   lastEncoderCount, encoderCount, rxPending, tick,
                   knob>>

\* A datagram reaches port 38900 while the drain loop is running: the network
\* stack fills the receive buffer on its own, whatever loop() is doing.
RxArrive ==
    /\ pc = "drain"
    /\ UNCHANGED buttonVars
    /\ rxPending < MaxRx
    /\ rxPending' = rxPending + 1
    /\ Quiet
    /\ UNCHANGED <<brightness, studyLampOn, uplightOn, colorTempMode, messageId,
                   lastEncoderCount, encoderCount, pc, tick, knob>>

(***************************************************************************)
(* loop(): encoder rotation                                                *)
(***************************************************************************)
\* Variant: the count is clamped for the comparison only, without
\* encoder.setCount(): the hardware count stays beyond the bound.
RotationNoWriteBack ==
    /\ pc = "rotate"
    /\ UNCHANGED buttonVars
    /\ \E ok1, ok2 \in BOOLEAN :
         LET currentCount == ClampCount(encoderCount)
             changed == currentCount # lastEncoderCount
             b == BrightnessOf(currentCount)
             tx0 == [cmds |-> <<>>, id |-> messageId]
             tx1 == IF changed /\ studyLampOn
                    THEN sendWizCommand(tx0, STUDY_LAMP, TRUE, b, ok1, studyLampOn)
                    ELSE tx0
             tx2 == IF changed /\ uplightOn
                    THEN sendWizCommand(tx1, UPLIGHT, TRUE, b, ok2, uplightOn)
                    ELSE tx1
         IN /\ encoderCount' = encoderCount
            /\ lastEncoderCount' = IF changed THEN currentCount ELSE lastEncoderCount
            /\ brightness' = IF changed THEN b ELSE brightness
            /\ messageId' = tx2.id
            /\ Log(tx2.cmds)
            /\ ev' = IF changed
                     THEN [src |-> "rot", s0 |-> studyLampOn, u0 |-> uplightOn,
                           raw |-> encoderCount, pend |-> pendingB, t0 |-> 0,
                           turn |-> knob.turn, over |-> knob.over]
                     ELSE [NoEv EXCEPT !.raw = encoderCount]
            /\ IF changed
               THEN /\ Remember([NoSummary EXCEPT !.src = "rot"])
                    /\ Follow("rot", encoderCount, tx2.cmds)
               ELSE UNCHANGED <<last, prev, script>>
            /\ Pending(tx2.cmds, IF changed /\ tx2.cmds = <<>> THEN b ELSE 0)
            /\ tick' = TickOf(changed, tx2.cmds, b)
            /\ knob' = KnobAfter(encoderCount, changed)
    /\ pc' = "encoder"
    /\ UNCHANGED <<studyLampOn, uplightOn, colorTempMode, rxPending>>

\* currentCount = encoder.getCount(), the clamp with its write-back, and the
\* dispatch of the brightness change.
Rotation ==
    /\ pc = "rotate"
    /\ UNCHANGED buttonVars
    /\ \E ok1, ok2 \in BOOLEAN :
         LET currentCount == ClampCount(encoderCount)
             changed == currentCount # lastEncoderCount
             b == BrightnessOf(currentCount)
             tx0 == [cmds |-> <<>>, id |-> messageId]
             tx1 == IF changed /\ studyLampOn
                    THEN sendWizCommand(tx0, STUDY_LAMP, TRUE, b, ok1, studyLampOn)
                    ELSE tx0
             tx2 == IF changed /\ uplightOn
                    THEN sendWizCommand(tx1, UPLIGHT, TRUE, b, ok2, uplightOn)
                    ELSE tx1
         IN /\ encoderCount' = currentCount
            /\ lastEncoderCount' = IF changed THEN currentCount ELSE lastEncoderCount
            /\ brightness' = IF changed THEN b ELSE brightness
            /\ messageId' = tx2.id
            /\ Log(tx2.cmds)
            /\ ev' = IF changed
                     THEN [src |-> "rot", s0 |-> studyLampOn, u0 |-> uplightOn,
                           raw |-> encoderCount, pend |-> pendingB, t0 |-> 0,
                           turn |-> knob.turn, over |-> knob.over]
                     ELSE [NoEv EXCEPT !.raw = encoderCount]
            /\ IF changed
               THEN /\ Remember([NoSummary EXCEPT !.src = "rot"])
                    /\ Follow("rot", encoderCount, tx2.cmds)
               ELSE UNCHANGED <<last, prev, script>>
            /\ Pending(tx2.cmds, IF changed /\ tx2.cmds = <<>> THEN b ELSE 0)
            /\ tick' = TickOf(changed, tx2.cmds, b)
            /\ knob' = KnobAfter(encoderCount, changed)
    /\ pc' = "encoder"
    /\ UNCHANGED <<studyLampOn, uplightOn, colorTempMode, rxPending>>

(***************************************************************************)
(* Button handlers                                                         *)
(***************************************************************************)
\* Variant: a click that always switches the light on.
ToggleOn(on) ==
    TRUE

\* studyLampOn = !studyLampOn / uplightOn = !uplightOn
Toggle(on) ==
    ~on

\* case AceButton::kEventClicked of handleEncoderButton
EncoderClicked ==
    \E ok1, ok2 \in BOOLEAN :
      LET tx0 == [cmds |-> <<>>, id |-> messageId]
          tx1 == IF studyLampOn
                 THEN sendWizColorTemp(tx0, STUDY_LAMP, brightness,
                                       TempOf(colorTempMode), ok1, studyLampOn)
                 ELSE tx0
          tx2 == IF uplightOn
                 THEN sendWizColorTemp(tx1, UPLIGHT, brightness,
                                       TempOf(colorTempMode), ok2, uplightOn)
                 ELSE tx1
      IN /\ colorTempMode' = NextColorTempMode(colorTempMode)
         /\ messageId' = tx2.id
         /\ Log(tx2.cmds)
         /\ Pending(tx2.cmds, 0)
         /\ ev' = [src |-> "click", s0 |-> studyLampOn, u0 |-> uplightOn,
                   raw |-> 0, pend |-> pendingB, t0 |-> colorTempMode,
                   turn |-> 0, over |-> 0]
         /\ Remember([NoSummary EXCEPT !.src = "click"])
         /\ Follow("click", 0, tx2.cmds)
         /\ UNCHANGED <<studyLampOn, uplightOn>>

\* case AceButton::kEventDoubleClicked of handleEncoderButton
EncoderDoubleClicked ==
    \E ok1, ok2 \in BOOLEAN :
      LET target == DoubleClickTarget(studyLampOn, uplightOn)
          tx0 == [cmds |-> <<>>, id |-> messageId]
          tx1 == sendWizCommand(tx0, STUDY_LAMP, target, brightness, ok1, target)
          tx2 == sendWizCommand(tx1, UPLIGHT, target, brightness, ok2, target)
      IN /\ studyLampOn' = target
         /\ uplightOn' = target
         /\ messageId' = tx2.id
         /\ Log(tx2.cmds)
         /\ Pending(tx2.cmds, 0)
         /\ ev' = [src |-> "dbl", s0 |-> studyLampOn, u0 |-> uplightOn,
                   raw |-> 0, pend |-> pendingB, t0 |-> 0,
                   turn |-> 0, over |-> 0]
         /\ Remember([NoSummary EXCEPT !.src = "dbl"])
         /\ Follow("dbl", 0, tx2.cmds)
         /\ UNCHANGED colorTempMode

\* The switch of handleEncoderButton: any other event type falls through.
handleEncoderButton(eventType) ==
    CASE eventType = "kEventClicked" -> EncoderClicked
      [] eventType = "kEventDoubleClicked" -> EncoderDoubleClicked
      [] OTHER -> /\ Quiet
                  /\ UNCHANGED <<studyLampOn, uplightOn, colorTempMode, messageId>>

\* Variant: the toggle is taken back when the transport refuses the command.
handleStudyButtonRollback(eventType) ==
    IF eventType = "kEventClicked"
    THEN \E ok \in BOOLEAN :
           LET on == Toggle(studyLampOn)
               tx == sendWizCommand([cmds |-> <<>>, id |-> messageId],
                                    STUDY_LAMP, on, brightness, ok, on)
           IN /\ studyLampOn' = IF ok THEN on ELSE studyLampOn
              /\ messageId' = tx.id
              /\ Log(tx.cmds)
              /\ Pending(tx.cmds, 0)
              /\ ev' = [src |-> "study", s0 |-> studyLampOn, u0 |-> uplightOn,
                        raw |-> 0, pend |-> pendingB, t0 |-> 0,
                        turn |-> 0, over |-> 0]
              /\ Remember(LightSummary("study", STUDY_LAMP, studyLampOn, tx.cmds))
              /\ Follow("study", 0, tx.cmds)
              /\ UNCHANGED uplightOn
    ELSE /\ Quiet
         /\ UNCHANGED <<studyLampOn, uplightOn, messageId>>

handleStudyButton(eventType) ==
    IF eventType = "kEventClicked"
    THEN \E ok \in BOOLEAN :
           LET on == Toggle(studyLampOn)
               tx == sendWizCommand([cmds |-> <<>>, id |-> messageId],
                                    STUDY_LAMP, on, brightness, ok, on)
           IN /\ studyLampOn' = on
              /\ messageId' = tx.id
              /\ Log(tx.cmds)
              /\ Pending(tx.cmds, 0)
              /\ ev' = [src |-> "study", s0 |-> studyLampOn, u0 |-> uplightOn,
                        raw |-> 0, pend |-> pendingB, t0 |-> 0,
                        turn |-> 0, over |-> 0]
              /\ Remember(LightSummary("study", STUDY_LAMP, studyLampOn, tx.cmds))
              /\ Follow("study", 0, tx.cmds)
              /\ UNCHANGED uplightOn
    ELSE /\ Quiet
         /\ UNCHANGED <<studyLampOn, uplightOn, messageId>>

\* Variant: the uplight handler as a copy of the study handler with the
\* address left unchanged.
handleUplightButtonStudyIp(eventType) ==
    IF eventType = "kEventClicked"
    THEN \E ok \in BOOLEAN :
           LET on == Toggle(uplightOn)
               tx == sendWizCommand([cmds |-> <<>>, id |-> messageId],
                                    STUDY_LAMP, on, brightness, ok, on)
           IN /\ uplightOn' = on
              /\ messageId' = tx.id
              /\ Log(tx.cmds)
              /\ Pending(tx.cmds, 0)
              /\ ev' = [src |-> "uplight", s0 |-> studyLampOn, u0 |-> uplightOn,
                        raw |-> 0, pend |-> pendingB, t0 |-> 0,
                        turn |-> 0, over |-> 0]
              /\ Remember(LightSummary("uplight", UPLIGHT, uplightOn, tx.cmds))
              /\ Follow("uplight", 0, tx.cmds)
              /\ UNCHANGED studyLampOn
    ELSE /\ Quiet
         /\ UNCHANGED <<studyLampOn, uplightOn, messageId>>

handleUplightButton(eventType) ==
    IF eventType = "kEventClicked"
    THEN \E ok \in BOOLEAN :
           LET on == Toggle(uplightOn)
               tx == sendWizCommand([cmds |-> <<>>, id |-> messageId],
                                    UPLIGHT, on, brightness, ok, on)
           IN /\ uplightOn' = on
              /\ messageId' = tx.id
              /\ Log(tx.cmds)
              /\ Pending(tx.cmds, 0)
              /\ ev' = [src |-> "uplight", s0 |-> studyLampOn, u0 |-> uplightOn,
                        raw |-> 0, pend |-> pendingB, t0 |-> 0,
                        turn |-> 0, over |-> 0]
              /\ Remember(LightSummary("uplight", UPLIGHT, uplightOn, tx.cmds))
              /\ Follow("uplight", 0, tx.cmds)
              /\ UNCHANGED studyLampOn
    ELSE /\ Quiet
         /\ UNCHANGED <<studyLampOn, uplightOn, messageId>>

(***************************************************************************)
(* loop(): the three button polls, the watchdog and the sleep              *)
(***************************************************************************)
\* Most sends the handler makes for this event type in the current state.
EncoderSends(eventType) ==
    CASE eventType = "kEventClicked" -> NumOn(studyLampOn, uplightOn)
      [] eventType = "kEventDoubleClicked" -> 2
      [] OTHER -> 0

LightSends(eventType) ==
    IF eventType = "kEventClicked" THEN 1 ELSE 0

\* buttonEncoder.check()
CheckEncoder ==
    /\ pc = "encoder"
    /\ UNCHANGED buttonVars
    /\ \E e \in EncoderEvents :
         /\ messageId + EncoderSends(e) <= MaxId
         /\ handleEncoderButton(e)
    /\ pc' = "study"
    /\ UNCHANGED <<brightness, lastEncoderCount, encoderCount, rxPending, tick,
                   knob>>

\* buttonStudy.check()
CheckStudy ==
    /\ pc = "study"
    /\ UNCHANGED buttonVars
    /\ \E e \in LightEvents :
         /\ messageId + LightSends(e) <= MaxId
         /\ handleStudyButton(e)
    /\ pc' = "uplight"
    /\ UNCHANGED <<brightness, colorTempMode, lastEncoderCount, encoderCount, rxPending,
                   tick, knob>>

\* buttonUplight.check()
CheckUplight ==
    /\ pc = "uplight"
    /\ UNCHANGED buttonVars
    /\ \E e \in LightEvents :
         /\ messageId + LightSends(e) <= MaxId
         /\ handleUplightButton(e)
    /\ pc' = "wdt"
    /\ UNCHANGED <<brightness, colorTempMode, lastEncoderCount, encoderCount, rxPending,
                   tick, knob>>

\* esp_task_wdt_reset()
WdtReset ==
    /\ pc = "wdt"
    /\ UNCHANGED buttonVars
    /\ pc' = "delay"
    /\ Quiet
    /\ tick' = NoTick
    /\ UNCHANGED <<brightness, studyLampOn, uplightOn, colorTempMode, messageId,
                   lastEncoderCount, encoderCount, rxPending, knob>>

\* delay(10): the loop sleeps; the encoder is turned by delta detents, one
\* of T, and up to MaxRx datagrams arrive before the next pass starts.
DelayBy(T) ==
    /\ pc = "delay"
    /\ UNCHANGED buttonVars
    /\ \E delta \in T, n \in 0..MaxRx :
         /\ ClampCount(encoderCount + delta) # lastEncoderCount
              => messageId + NumOn(studyLampOn, uplightOn) <= MaxId
         /\ encoderCount' = encoderCount + delta
         /\ rxPending' = n
         /\ knob' = [knob EXCEPT !.turn = delta]
    /\ pc' = "drain"
    /\ Quiet
    /\ UNCHANGED <<brightness, studyLampOn, uplightOn, colorTempMode, messageId,
                   lastEncoderCount, tick>>

\* The sleep with the knob turned by whole sweeps or by several detents.
Delay ==
    DelayBy(Turns)

\* The sleep with the knob turned by single detents.
DelayFine ==
    DelayBy(TurnsFine)

\* buttonEncoder.check() with the event decided by the classifier from the
\* level of the contact.
CheckEncoderRaw ==
    /\ pc = "encoder"
    /\ LET r == ButtonPoll(btn, hand.down, EncoderFeatures)
       IN /\ messageId + EncoderSends(r.e) <= MaxId
          /\ handleEncoderButton(r.e)
          /\ btn' = r.btn
          /\ pair' = PairAtPoll(r.e, <<studyLampOn', uplightOn'>>
                                       # <<studyLampOn, uplightOn>>)
    /\ pc' = "study"
    /\ UNCHANGED <<brightness, lastEncoderCount, encoderCount, rxPending, tick, knob,
                   hand>>

\* delay(10) with the knob at rest and no datagram arriving: the user keeps
\* the encoder button as it is, presses it or lets it go.
DelayButton ==
    /\ pc = "delay"
    /\ \E down \in BOOLEAN :
         IF down = hand.down
         THEN /\ hand' = [hand EXCEPT !.run = IF hand.run < RunCap
                                               THEN hand.run + 1 ELSE hand.run]
              /\ pair' = pair
         ELSE /\ hand' = [down |-> down, run |-> 1]
              /\ pair' = PairAtFlip(down)
    /\ pc' = "drain"
    /\ Quiet
    /\ UNCHANGED <<brightness, studyLampOn, uplightOn, colorTempMode, messageId,
                   lastEncoderCount, encoderCount, rxPending, tick, knob, btn>>

Next ==
    \/ DrainPacket
    \/ DrainDone
    \/ Rotation
    \/ CheckEncoder
    \/ CheckStudy
    \/ CheckUplight
    \/ WdtReset
    \/ Delay

Spec == Init /\ [][Next]_vars

\* The same program with the knob turned one detent at a time.
NextFine ==
    \/ DrainPacket
    \/ DrainDone
    \/ Rotation
    \/ CheckEncoder
    \/ CheckStudy
    \/ CheckUplight
    \/ WdtReset
    \/ DelayFine

SpecFine == Init /\ [][NextFine]_vars

\* The program with datagrams arriving during the drain as well.  The
\* processor keeps executing loop(): whenever the program has a step to take
\* it eventually takes one.  Nothing is assumed about the senders.
NextLive ==
    \/ Next
    \/ RxArrive

SpecLive == Init /\ [][NextLive]_vars /\ WF_vars(Next)

\* The program with the encoder button's events decided by its classifier.
NextButton ==
    \/ DrainDone
    \/ Rotation
    \/ CheckEncoderRaw
    \/ CheckStudy
    \/ CheckUplight
    \/ WdtReset
    \/ DelayButton

SpecButton == Init /\ [][NextButton]_vars

TypeOK ==
    /\ brightness \in Int
    /\ studyLampOn \in BOOLEAN
    /\ uplightOn \in BOOLEAN
    /\ colorTempMode \in Int
    /\ messageId \in 1..MaxId
    /\ pc \in {"drain", "rotate", "encoder", "study", "uplight", "wdt", "delay"}
    /\ rxPending \in 0..MaxRx

(***************************************************************************)
(* Properties                                                              *)
(***************************************************************************)
NumAccepted(cmds) == Len(SelectSeq(cmds, LAMBDA c : c.ok))

IdBefore(i) == IF i = 1 THEN lastId ELSE sent[i - 1].payload.id

OkIdBefore(i) ==
    LET acc == SelectSeq(SubSeq(sent, 1, i - 1), LAMBDA c : c.ok)
    IN IF acc = <<>> THEN lastOkId ELSE acc[Len(acc)].payload.id

IsOn(ip) == IF ip = STUDY_LAMP THEN studyLampOn ELSE uplightOn

C3_StateInRange ==
    /\ brightness % BRIGHTNESS_STEP = 0
    /\ brightness >= MIN_BRIGHTNESS
    /\ brightness <= MAX_BRIGHTNESS
    /\ colorTempMode \in 0..3

\* The encoder was spun far below the range after clicks and a power-on.
C3_Witness ==
    /\ ev.src = "rot"
    /\ ev.raw < minCount - 10
    /\ brightness = MIN_BRIGHTNESS
    /\ colorTempMode = 3
    /\ studyLampOn

\* C4: a dimming field is within [10, 100] and a temp field is one of
\* 2200, 2700, 4000, 6500, in every command handed to the transport.
C4_PayloadFields ==
    \A i \in 1..Len(sent) :
        /\ HasField(sent[i], "dimming")
             => sent[i].payload.dimming \in MIN_BRIGHTNESS..MAX_BRIGHTNESS
        /\ HasField(sent[i], "temp")
             => sent[i].payload.temp \in {2200, 2700, 4000, 6500}

\* A temperature command at the top of both ranges.
C4_Witness ==
    \E i \in 1..Len(sent) :
        /\ HasField(sent[i], "temp")
        /\ sent[i].payload.temp = 6500
        /\ sent[i].payload.dimming = MAX_BRIGHTNESS

\* C5: a command with a dimming field goes only to a light that is on when it
\* is sent.  Rotation and temperature-click commands go to lights that were
\* on before the step; every other command with a dimming field is a power-on
\* sent by a toggle that has just switched the light on, and it carries the
\* current brightness.
C5_DimmingOnlyToOnLights ==
    \A i \in 1..Len(sent) :
        HasField(sent[i], "dimming") =>
            /\ sent[i].on
            /\ IsOn(sent[i].ip)
            /\ ev.src \in {"rot", "click"} =>
                 IF sent[i].ip = STUDY_LAMP THEN ev.s0 ELSE ev.u0
            /\ ev.src \notin {"rot", "click"} =>
                 /\ ev.src \in {"study", "uplight", "dbl"}
                 /\ PowerOf(sent[i]) = "on"
                 /\ sent[i].payload.dimming = brightness
                 /\ ~(IF sent[i].ip = STUDY_LAMP THEN ev.s0 ELSE ev.u0)

\* A rotation with one light on and one off sent its single command to the
\* light that is on.
C5_Witness ==
    /\ ev.src = "rot"
    /\ ~ev.s0
    /\ ev.u0
    /\ Len(sent) = 1
    /\ sent[1].ip = UPLIGHT
    /\ HasField(sent[1], "dimming")

\* C6: a rotation to a new detent while both lights are off sends nothing and
\* sets brightness to detent * BRIGHTNESS_STEP; a power-on sent while such a
\* value is pending (by a light's own button or by a double-click) carries it.
C6_SilentRotationThenPowerOn ==
    /\ (ev.src = "rot" /\ ~ev.s0 /\ ~ev.u0) =>
          /\ sent = <<>>
          /\ ev.raw \in minCount..maxCount => brightness = ev.raw * BRIGHTNESS_STEP
    /\ \A i \in 1..Len(sent) :
          (PowerOf(sent[i]) = "on" /\ ev.pend # 0) =>
              sent[i].payload.dimming = ev.pend

\* The uplight button switches its light on after a silent rotation away
\* from the initial brightness.
C6_Witness ==
    /\ ev.src = "uplight"
    /\ ev.pend # 0
    /\ ev.pend # InitBrightness
    /\ Len(sent) = 1
    /\ PowerOf(sent[1]) = "on"
    /\ sent[1].payload.dimming = ev.pend

\* C7: after two clicks of the same light button with no user event between
\* them the light's is_on is what it was before the first click, each click
\* sent exactly one command to that light, and the two commands ask for
\* opposite power states.
C7_DoubleToggleRestores ==
    (last.src \in {"study", "uplight"} /\ prev.src = last.src) =>
        /\ (IF last.src = "study" THEN studyLampOn ELSE uplightOn) = prev.was
        /\ prev.n = 1
        /\ last.n = 1
        /\ prev.st \in {"on", "off"}
        /\ last.st \in {"on", "off"}
        /\ last.st # prev.st

\* The study button was clicked twice in a row, starting from a lit lamp.
C7_Witness ==
    /\ last.src = "study"
    /\ prev.src = "study"
    /\ prev.was
    /\ studyLampOn
    /\ ev.src = "study"

\* C8: a double-click with both lights off leaves both on and sends two
\* power-on commands, one per light, each with the current brightness; a
\* double-click with a light on leaves both off and sends two power-off
\* commands, one per light.
C8_DoubleClick ==
    ev.src = "dbl" =>
        /\ Len(sent) = 2
        /\ sent[1].ip = STUDY_LAMP
        /\ sent[2].ip = UPLIGHT
        /\ IF ~ev.s0 /\ ~ev.u0
           THEN /\ studyLampOn /\ uplightOn
                /\ \A i \in 1..2 :
                     /\ PowerOf(sent[i]) = "on"
                     /\ sent[i].payload.dimming = brightness
           ELSE /\ ~studyLampOn /\ ~uplightOn
                /\ \A i \in 1..2 :
                     /\ PowerOf(sent[i]) = "off"
                     /\ ~HasField(sent[i], "dimming")

\* A double-click with only the study lamp on: the uplight, already off, is
\* sent a power-off too.
C8_Witness ==
    /\ ev.src = "dbl"
    /\ ev.s0
    /\ ~ev.u0
    /\ Len(sent) = 2
    /\ PowerOf(sent[2]) = "off"

\* C9: an encoder click leaves colorTempMode one past its old value modulo 4,
\* whatever lights are on, and three more clicks from there pass through the
\* three other values before a fourth comes back.
C9_TempCycle ==
    ev.src = "click" =>
        /\ ev.t0 \in 0..3
        /\ colorTempMode = (ev.t0 + 1) % 4
        /\ LET m1 == NextColorTempMode(colorTempMode)
               m2 == NextColorTempMode(m1)
               m3 == NextColorTempMode(m2)
           IN /\ Cardinality({colorTempMode, m1, m2, m3}) = 4
              /\ m3 = ev.t0
              /\ NextColorTempMode(m3) = colorTempMode

\* A click with both lights off wraps the index from 3 back to 0.
C9_Witness ==
    /\ ev.src = "click"
    /\ ev.t0 = 3
    /\ colorTempMode = 0
    /\ ~studyLampOn
    /\ ~uplightOn
    /\ sent = <<>>

\* C10: when the rotation step reads a count outside [minCount, maxCount] it
\* leaves the stored count at the nearest bound, and from the rotation step to
\* the end of every pass the stored count is within [minCount, maxCount].
C10_ClampEveryTick ==
    /\ pc = "encoder" =>
          /\ ev.raw < minCount => encoderCount = minCount
          /\ ev.raw > maxCount => encoderCount = maxCount
    /\ pc \in {"encoder", "study", "uplight", "wdt", "delay"} =>
          encoderCount \in minCount..maxCount

\* The encoder, already at the upper bound, was turned further past it and
\* the count is back at the bound.
C10_Witness ==
    /\ pc = "encoder"
    /\ ev.raw > maxCount + 1
    /\ lastEncoderCount = maxCount
    /\ ev.src = "none"
    /\ encoderCount = maxCount

\* C11: the reference scenario from the initial state with every send
\* accepted.  A click of the study button sends one power-on with id 1 and
\* dimming 50 to the study lamp; the rotation to the detent of 60 sends one
\* power-on with id 2 and dimming 60 to the study lamp only; a double-click
\* switches both lights off and sends two power-offs with ids 3 and 4; a
\* single click then leaves the temperature index at 1 and sends nothing.
C11_Scenario ==
    /\ (script = 1 /\ ev.src = "study") =>
          /\ studyLampOn /\ ~uplightOn
          /\ brightness = 50
          /\ Len(sent) = 1
          /\ sent[1].ip = STUDY_LAMP
          /\ sent[1].payload = [id |-> 1, state |-> TRUE, dimming |-> 50]
    /\ (script = 2 /\ ev.src = "rot") =>
          /\ studyLampOn /\ ~uplightOn
          /\ brightness = 60
          /\ Len(sent) = 1
          /\ sent[1].ip = STUDY_LAMP
          /\ sent[1].payload = [id |-> 2, state |-> TRUE, dimming |-> 60]
    /\ (script = 3 /\ ev.src = "dbl") =>
          /\ ~studyLampOn /\ ~uplightOn
          /\ Len(sent) = 2
          /\ sent[1].ip = STUDY_LAMP
          /\ sent[1].payload = [id |-> 3, state |-> FALSE]
          /\ sent[2].ip = UPLIGHT
          /\ sent[2].payload = [id |-> 4, state |-> FALSE]
    /\ (script = 4 /\ ev.src = "click") =>
          /\ colorTempMode = 1
          /\ sent = <<>>
          /\ ~studyLampOn /\ ~uplightOn
          /\ messageId = 5

\* The whole scenario has run.
C11_Witness ==
    /\ script = 4
    /\ ev.src = "click"
    /\ colorTempMode = 1

\* Whether the user event of the last step affects light ip: a rotation or a
\* temperature click affects the lights that were on, a double-click both
\* lights, a light's own button that light.
Affected(ip) ==
    CASE ev.src \in {"rot", "click"} -> (IF ip = STUDY_LAMP THEN ev.s0 ELSE ev.u0)
      [] ev.src = "dbl" -> TRUE
      [] ev.src = "study" -> ip = STUDY_LAMP
      [] ev.src = "uplight" -> ip = UPLIGHT
      [] OTHER -> FALSE

\* C12: a failed send is neither retried nor queued.  Whatever the transport
\* answers, a user event makes exactly one attempt to each light it affects
\* and none to the other, and a step without a user event makes no attempt.
C12_OneAttemptPerEvent ==
    /\ \A ip \in {STUDY_LAMP, UPLIGHT} :
         Len(CmdsTo(sent, ip)) = IF Affected(ip) THEN 1 ELSE 0
    /\ ev.src = "none" => sent = <<>>
    /\ \A i \in 1..Len(sent) : sent[i].ip \in {STUDY_LAMP, UPLIGHT}

\* A double-click both of whose sends the transport refused, after earlier
\* sends had been refused as well.
C12_Witness ==
    /\ ev.src = "dbl"
    /\ Len(sent) = 2
    /\ ~sent[1].ok /\ ~sent[2].ok
    /\ lastId # 0 /\ lastOkId = 0

\* What a click on the button of light ip must do in one step: is_on of that
\* light flips, exactly one command goes out and it goes to ip, a power-on
\* with the current brightness when the light is now on and a power-off
\* without dimming when it is now off.
OwnClickStep(ip, was, now, otherWas, otherNow) ==
    /\ now = ~was
    /\ otherNow = otherWas
    /\ brightness' = brightness
    /\ colorTempMode' = colorTempMode
    /\ Len(sent') = 1
    /\ sent'[1].ip = ip
    /\ sent'[1].payload = IF now
                          THEN [id |-> messageId, state |-> TRUE,
                                dimming |-> brightness]
                          ELSE [id |-> messageId, state |-> FALSE]

\* C15: a click on a light's own button toggles only that light and sends
\* exactly one command, to that light: power-on with the current brightness
\* or power-off without dimming.  The other light, brightness and
\* colorTempMode are unchanged and the other light gets no command.
C15_LightClick ==
    [][/\ ev'.src = "study" =>
            OwnClickStep(STUDY_LAMP, studyLampOn, studyLampOn',
                         uplightOn, uplightOn')
       /\ ev'.src = "uplight" =>
            OwnClickStep(UPLIGHT, uplightOn, uplightOn',
                         studyLampOn, studyLampOn')]_vars

\* The uplight's button has switched the uplight off while the study lamp
\* stays on at a brightness other than the initial one.
C15_Witness ==
    /\ ev.src = "uplight"
    /\ ~uplightOn /\ studyLampOn
    /\ brightness # InitBrightness
    /\ Len(sent) = 1
    /\ sent[1].ip = UPLIGHT
    /\ PowerOf(sent[1]) = "off"

\* C16: a single click of the encoder button sends exactly one command to
\* each light that is on and none to a light that is off.  The command has
\* no state field and carries the current brightness and the temperature
\* the table holds at the index from before the advance, the same for both
\* lights.  colorTempMode starts at 0 and only a click changes it, so the
\* first click after start sends 2200 K.
C16_TempClick ==
    /\ colorTempMode = 0
    /\ [][ev'.src # "click" => colorTempMode' = colorTempMode]_vars
    /\ [](ev.src = "click" =>
            /\ Len(CmdsTo(sent, STUDY_LAMP)) = (IF ev.s0 THEN 1 ELSE 0)
            /\ Len(CmdsTo(sent, UPLIGHT)) = (IF ev.u0 THEN 1 ELSE 0)
            /\ studyLampOn = ev.s0 /\ uplightOn = ev.u0
            /\ \A i \in 1..Len(sent) :
                 /\ DOMAIN sent[i].payload = {"id", "dimming", "temp"}
                 /\ sent[i].payload.dimming = brightness
                 /\ sent[i].payload.temp = <<2200, 2700, 4000, 6500>>[ev.t0 + 1])

\* The first click, with both lights on: two commands, both with 2200 K.
C16_Witness ==
    /\ ev.src = "click"
    /\ ev.s0 /\ ev.u0
    /\ ev.t0 = 0
    /\ Len(sent) = 2
    /\ sent[1].payload.temp = 2200
    /\ sent[2].payload.temp = 2200
    /\ sent[1].payload.dimming # InitBrightness

\* The dimmer and light state as a tuple.
DimmerState == <<brightness, studyLampOn, uplightOn, colorTempMode>>

\* The state the user event e leaves behind, from the state before it alone:
\* no transport outcome is among the arguments.
StateAfter(e) ==
    CASE e.src = "rot" ->
           <<2 * (IF e.raw < 5 THEN 5 ELSE IF e.raw > 50 THEN 50 ELSE e.raw),
             studyLampOn, uplightOn, colorTempMode>>
      [] e.src = "click" ->
           <<brightness, studyLampOn, uplightOn, (colorTempMode + 1) % 4>>
      [] e.src = "dbl" ->
           <<brightness, ~(studyLampOn \/ uplightOn), ~(studyLampOn \/ uplightOn),
             colorTempMode>>
      [] e.src = "study" ->
           <<brightness, ~studyLampOn, uplightOn, colorTempMode>>
      [] e.src = "uplight" ->
           <<brightness, studyLampOn, ~uplightOn, colorTempMode>>
      [] OTHER -> DimmerState

\* C20: every step takes the dimmer and light state to a value fixed by the
\* state before the step and the user event alone, whatever the transport
\* answered.  Two runs with the same events therefore agree on brightness,
\* both is_on flags and colorTempMode, and can differ only in messageId.
C20_StateIgnoresTransport ==
    [][DimmerState' = StateAfter(ev')]_vars

\* The study lamp counts as on although the transport refused its power-on,
\* and the counter stayed where a successful run would have moved it.
C20_Witness ==
    /\ ev.src = "study"
    /\ studyLampOn
    /\ Len(sent) = 1 /\ ~sent[1].ok
    /\ messageId = sent[1].payload.id
    /\ colorTempMode # 0

\* The order of the steps of one pass of loop().
PassOrder ==
    {<<"drain", "rotate">>, <<"rotate", "encoder">>, <<"encoder", "study">>,
     <<"study", "uplight">>, <<"uplight", "wdt">>, <<"wdt", "delay">>,
     <<"delay", "drain">>}

\* A step dispatches a user event only from its own place in the pass: the
\* rotation first, then the encoder button, the study button, the uplight
\* button.
StepsInOrder ==
    /\ pc' # pc => <<pc, pc'>> \in PassOrder
    /\ ev'.src = "rot" => pc = "rotate" /\ pc' = "encoder"
    /\ ev'.src \in {"click", "dbl"} => pc = "encoder" /\ pc' = "study"
    /\ ev'.src = "study" => pc = "study" /\ pc' = "uplight"
    /\ ev'.src = "uplight" => pc = "uplight" /\ pc' = "wdt"

\* A rotation sends nothing to a light that was off when the pass began.
RotationSkipsOffLights ==
    ev.src = "rot" =>
        /\ ~ev.s0 => CmdsTo(sent, STUDY_LAMP) = <<>>
        /\ ~ev.u0 => CmdsTo(sent, UPLIGHT) = <<>>

\* The last step dispatched a button event in a pass whose rotation step
\* changed the detent.
ButtonAfterRotation ==
    /\ ev.src \in {"click", "dbl", "study", "uplight"}
    /\ tick.changed

\* A power-on of the button event carries the brightness the rotation set.
PowerOnCarriesNewBrightness ==
    ButtonAfterRotation =>
        \A i \in 1..Len(sent) :
            PowerOf(sent[i]) = "on" => sent[i].payload.dimming = tick.b

C17_AbsorbedAtBound ==
    [][pc = "rotate" =>
         LET clamped == IF encoderCount < MIN_BRIGHTNESS \div BRIGHTNESS_STEP
                        THEN MIN_BRIGHTNESS \div BRIGHTNESS_STEP
                        ELSE IF encoderCount > MAX_BRIGHTNESS \div BRIGHTNESS_STEP
                        THEN MAX_BRIGHTNESS \div BRIGHTNESS_STEP
                        ELSE encoderCount
         IN /\ clamped = lastEncoderCount =>
                 /\ brightness' = brightness
                 /\ lastEncoderCount' = lastEncoderCount
                 /\ sent' = <<>>
            /\ (brightness = MAX_BRIGHTNESS /\ encoderCount * BRIGHTNESS_STEP > MAX_BRIGHTNESS
                  /\ lastEncoderCount * BRIGHTNESS_STEP = MAX_BRIGHTNESS) =>
                 /\ brightness' = brightness
                 /\ sent' = <<>>
            /\ (knob.over = 1 /\ knob.turn = -1) =>
                 /\ brightness = MAX_BRIGHTNESS
                 /\ brightness' = brightness - BRIGHTNESS_STEP
            /\ (knob.over = -1 /\ knob.turn = 1) =>
                 /\ brightness = MIN_BRIGHTNESS
                 /\ brightness' = brightness + BRIGHTNESS_STEP]_vars

\* The upper bound had absorbed a turn; one detent back has now lowered the
\* brightness by one step and told the light that is on.
C17_Witness ==
    /\ ev.src = "rot"
    /\ ev.over = 1
    /\ ev.turn = -1
    /\ brightness = MAX_BRIGHTNESS - BRIGHTNESS_STEP
    /\ Len(sent) = 1
    /\ sent[1].payload.dimming = MAX_BRIGHTNESS - BRIGHTNESS_STEP

\* C19: every pass of loop() that starts its drain reaches the watchdog
\* acknowledgement, whatever datagrams arrive, however the knob is turned,
\* whichever buttons fire and whatever the transport answers.
C19_EveryTickReachesWatchdog ==
    (pc = "drain") ~> (pc = "wdt")

\* C13: two gestures on the encoder button, the second press within the
\* double-click window of the first, give exactly one double-click event
\* and no click event: the handler changes the lights at one poll and
\* colorTempMode is where it was before the first press.  Until the second
\* gesture is done no click has been handed over.
C13_DoubleClickPair ==
    /\ (pair.k = 3 /\ pair.in) => (pair.c = 0 /\ pair.d = 0)
    /\ (pair.k = 4 /\ pair.in /\ PolledRun >= 2) =>
          /\ pair.d = 1
          /\ pair.c = 0
          /\ pair.f = 1
          /\ colorTempMode = pair.m0

\* The poll that completed such a pair has just dispatched the double-click.
C13_Witness ==
    /\ pair.k = 4 /\ pair.in
    /\ ev.src = "dbl"
    /\ pair.d = 1 /\ pair.c = 0 /\ pair.f = 1
    /\ pair.m0 # 0

\* C14: two gestures on the encoder button, the second press later than the
\* double-click window after the first, give two click events and no
\* double-click event: once the window after the second gesture has passed,
\* colorTempMode has advanced by exactly two (mod 4) and the handler has
\* changed no light.
C14_TwoClicks ==
    /\ (pair.k \in {3, 4} /\ ~pair.in) => (pair.d = 0 /\ pair.f = 0)
    /\ (pair.k = 4 /\ ~pair.in /\ PolledRun >= QuietTicks) =>
          /\ pair.c = 2
          /\ pair.d = 0
          /\ pair.f = 0
          /\ colorTempMode = (pair.m0 + 2) % 4

\* The second of the two clicks has just been dispatched, with a light on.
C14_Witness ==
    /\ pair.k = 4 /\ ~pair.in
    /\ ev.src = "click"
    /\ pair.c = 2 /\ pair.d = 0
    /\ Len(sent) >= 1

====
